---- MODULE Spec2Model ----
(***************************************************************************)
(* State-machine model of the sales-coach front end and its API routes:    *)
(*   - the zustand store (useStore.ts): DSR selection and conversations    *)
(*   - the chat component (ChatInterfaceWithOpenAI.tsx): handleSend        *)
(*   - the check-in page greeting effect (app/checkin/page.tsx)            *)
(*   - GET /api/voice/elevenlabs-token and POST /api/chat                  *)
(*   - the OpenAITTS player (lib/voice/openai-tts.ts)                      *)
(* Each subsystem has its own specification over the shared variables.     *)
(***************************************************************************)
EXTENDS Integers, Sequences, FiniteSets, TLC

VARIABLES
    \* ---- store (useStore.ts) ----
    allDSRs,               \* DSRInfo[] loaded from the fixture
    selectedDSRId,         \* string ("" when the fixture is empty)
    currentDSR,            \* DSRData | null
    dsrHistory,            \* DSRInfo[]
    voiceEnabled,          \* boolean
    language,              \* settings.language
    selectedPersona,       \* PersonaType
    currentConversation,   \* Message[]
    checkinConversation,   \* Message[]
    coachingConversation,  \* Message[]
    \* ---- history of the run (not program state) ----
    added,                 \* every message passed to addMessage, in call order
    nextId,                \* source of fresh message ids (Date.now()-random)
    \* ---- chat component (ChatInterfaceWithOpenAI.tsx) ----
    chatMode,              \* the mode prop of the mounted instance
    input,                 \* useState("")
    isLoading,             \* useState(false)
    requests,              \* handleSend calls in progress or finished
    posts,                 \* bodies of the POSTs sent to /api/chat
    voiceState,            \* the agent hook's connection state
    voiceTexts,            \* texts sent into the voice agent session
    sentWhile,             \* voice states in which a send was accepted (history)
    \* ---- check-in page (app/checkin/page.tsx) ----
    pageMounted,           \* the page is on screen
    hasGreetedRef,         \* useRef(false)
    rendered,              \* what the latest render read from the store
    effectDeps,            \* dependency values at the effect's last run
    greetingIds,           \* ids of the messages the greeting effect added
    \* ---- GET /api/voice/elevenlabs-token ----
    apiKeyEnv,             \* process.env.ELEVENLABS_API_KEY
    agentConfigs,          \* persona -> configured agentId
    tokPc,                 \* where the handler of the current request is
    tokAgentId,            \* searchParams.get("agentId")
    tokWarned,             \* the handler logged the unknown-agent warning
    tokUpstream,           \* the request sent to the ElevenLabs API
    tokResponse,           \* the response returned to the client
    \* ---- POST /api/chat ----
    apiPc,                 \* where the handler of the current request is
    apiRequest,            \* the parsed request body
    forwarded,             \* messages of the completion call (<<>>: none made)
    apiResponse,           \* the response returned to the client
    \* ---- OpenAITTS (lib/voice/openai-tts.ts) ----
    currentAudio,          \* this.currentAudio (0: null)
    isSpeakingState,       \* this.isSpeakingState
    audios,                \* playback state of every Audio element created
    speakCalls,            \* where each speak() call is
    \* ---- voice configuration (elevenlabs-config.ts, speech-synthesis.ts) ----
    env,                   \* process.env of the build
    isServer,              \* typeof window === "undefined"
    cfgResult,             \* what validateConfig of each module returned
    \* ---- useElevenLabsAgent (the voice agent hook) ----
    hookPhase,             \* the component using the hook: new, mounted, unmounted
    isConnecting,          \* useState(false)
    agentConnected,        \* state.connected
    conversationIdRef,     \* useRef(null) (0: null, else the session's number)
    connectPc,             \* where the connect() call in progress is
    agentError,            \* state.error (its code, "none": null)
    microphonePermissionGranted, \* state.microphonePermissionGranted
    autoConnect,           \* the hook's autoConnect option
    hasInitializedRef,     \* useRef(false)
    sessions,              \* every session startSession returned: active or ended
    \* ---- insights engine (lib/agents/insights-engine.ts) ----
    dsrData,               \* the DSR record passed to the engine
    outlets,               \* the outlets array passed to the engine
    history,               \* the DSR's records passed to the engine, latest first
    now,                   \* new Date(), in hours
    insResult              \* the function called and what it returned

storeVars == <<allDSRs, selectedDSRId, currentDSR, dsrHistory, voiceEnabled,
               language, selectedPersona, currentConversation, checkinConversation,
               coachingConversation, added, nextId>>

chatVars == <<chatMode, input, isLoading, requests, posts,
              voiceState, voiceTexts, sentWhile>>

pageVars == <<pageMounted, hasGreetedRef, rendered, effectDeps, greetingIds>>

tokenVars == <<apiKeyEnv, agentConfigs, tokPc, tokAgentId, tokWarned,
               tokUpstream, tokResponse>>

apiVars == <<apiPc, apiRequest, forwarded, apiResponse>>

ttsVars == <<currentAudio, isSpeakingState, audios, speakCalls>>

cfgVars == <<env, isServer, cfgResult>>

hookVars == <<hookPhase, isConnecting, agentConnected, conversationIdRef,
              connectPc, agentError, microphonePermissionGranted, autoConnect,
              hasInitializedRef, sessions>>

insVars == <<dsrData, outlets, history, now, insResult>>

\* the parts added to the model after the application's own state
libVars == <<cfgVars, hookVars, insVars>>

vars == <<storeVars, chatVars, pageVars, tokenVars, apiVars, ttsVars, libVars>>

\* what the actions of one subsystem leave alone
offStore == <<chatVars, pageVars, tokenVars, apiVars, ttsVars,
             libVars>>
offChat == <<pageVars, tokenVars, apiVars, ttsVars,
             libVars>>
offPage == <<chatVars, tokenVars, apiVars, ttsVars,
             libVars>>
offToken == <<storeVars, chatVars, pageVars, apiVars, ttsVars,
             libVars>>
offApi == <<storeVars, chatVars, pageVars, tokenVars, ttsVars,
             libVars>>
offTts == <<storeVars, chatVars, pageVars, tokenVars, apiVars,
             libVars>>
appVars == <<storeVars, chatVars, pageVars, tokenVars, apiVars, ttsVars>>
offCfg == <<appVars, hookVars, insVars>>
offHook == <<appVars, cfgVars, insVars>>
offIns == <<appVars, cfgVars, hookVars>>

\* ------------------------------------------------------------------------
\* Bounds
\* ------------------------------------------------------------------------
MaxRecords == 2      \* records in the DSR fixture
MaxDate == 2         \* distinct record dates
MaxMsgs == 3         \* addMessage calls in one run
MaxChatMsgs == 4     \* messages added while the chat component is in use
MaxApiMsgs == 2      \* messages in one request to the chat route
MaxSpeaks == 2       \* speak() calls on the OpenAITTS instance
MaxPageMsgs == 2     \* messages added to the check-in conversation by others
MaxSessions == 2     \* sessions the voice agent hook starts in one run
MaxOutlets == 6      \* outlets passed to getPriorityOutlets
MaxHistory == 3      \* records passed to compareWithPreviousRecords

\* ------------------------------------------------------------------------
\* Values
\* ------------------------------------------------------------------------
DSRIds == {"D1", "D2"}
Modes == {"checkin", "coaching"}
Roles == {"user", "assistant", "agent"}
Languages == {"english", "tamil"}
Personas == {"professional", "friendly", "motivator", "advisor"}

NullDSR == [dsr_id |-> "null", date |-> 0]
DSRRecords == [dsr_id : DSRIds, date : 1..MaxDate]

SeqsUpTo(S, n) == UNION {[1..k -> S] : k \in 0..n}

Range(s) == {s[i] : i \in 1..Len(s)}

\* ------------------------------------------------------------------------
\* Store: DSR selection
\* ------------------------------------------------------------------------

\* Array.prototype.filter((record) => record.dsr_id === dsrId)
FilterById(recs, dsrId) == SelectSeq(recs, LAMBDA r : r.dsr_id = dsrId)

\* insertion into a list already ordered latest first, after every element
\* whose date is not earlier (Array.prototype.sort is stable)
RECURSIVE InsertLatestFirst(_, _)
InsertLatestFirst(r, s) ==
    IF s = <<>> THEN <<r>>
    ELSE IF Head(s).date >= r.date
         THEN <<Head(s)>> \o InsertLatestFirst(r, Tail(s))
         ELSE <<r>> \o s

\* .sort((a, b) => new Date(b.date).getTime() - new Date(a.date).getTime())
RECURSIVE SortLatestFirst(_)
SortLatestFirst(s) ==
    IF s = <<>> THEN <<>>
    ELSE InsertLatestFirst(s[Len(s)], SortLatestFirst(SubSeq(s, 1, Len(s) - 1)))

getDSRRecords(recs, dsrId) == SortLatestFirst(FilterById(recs, dsrId))

getInitialDSR(recs) ==
    IF Len(recs) = 0
    THEN [dsrId |-> "", currentDSR |-> NullDSR, history |-> <<>>]
    ELSE LET dsrRecords == getDSRRecords(recs, recs[1].dsr_id)
         IN [dsrId |-> recs[1].dsr_id,
             currentDSR |-> dsrRecords[1],
             history |-> dsrRecords]

convVars == <<currentConversation, checkinConversation, coachingConversation,
              added, nextId>>
dsrVars == <<allDSRs, selectedDSRId, currentDSR, dsrHistory>>
settingsVars == <<voiceEnabled, language, selectedPersona>>

setCurrentDSR ==
    \E dsr \in DSRRecords :
        /\ currentDSR' = dsr
        /\ UNCHANGED <<allDSRs, selectedDSRId, dsrHistory, settingsVars,
                       convVars, offStore>>

setSelectedDSRId ==
    \E dsrId \in DSRIds \cup {"D9"} :
        LET dsrRecords == getDSRRecords(allDSRs, dsrId)
        IN /\ IF Len(dsrRecords) > 0
              THEN /\ selectedDSRId' = dsrId
                   /\ currentDSR' = dsrRecords[1]
                   /\ dsrHistory' = dsrRecords
              ELSE UNCHANGED <<selectedDSRId, currentDSR, dsrHistory>>
           /\ UNCHANGED <<allDSRs, settingsVars, convVars, offStore>>

setVoiceEnabled ==
    \E enabled \in BOOLEAN :
        /\ voiceEnabled' = enabled
        /\ UNCHANGED <<dsrVars, language, selectedPersona, convVars, offStore>>

setSelectedPersona ==
    \E persona \in Personas :
        /\ selectedPersona' = persona
        /\ UNCHANGED <<dsrVars, voiceEnabled, language, convVars, offStore>>

updateSettings ==
    \E lang \in Languages :
        /\ language' = lang
        /\ UNCHANGED <<dsrVars, voiceEnabled, selectedPersona, convVars, offStore>>

\* ------------------------------------------------------------------------
\* Store: conversations
\* ------------------------------------------------------------------------

\* a Message; mode is metadata.mode ("none" when the metadata has no mode)
Msg(id, role, content, mode) ==
    [id |-> id, role |-> role, content |-> content, mode |-> mode]

\* addMessageConv with the mode branches appending to the displayed list
addMessageConv_sharedBase(message) ==
    IF message.mode = "checkin"
    THEN /\ checkinConversation' = Append(currentConversation, message)
         /\ currentConversation' = Append(currentConversation, message)
         /\ UNCHANGED coachingConversation
    ELSE IF message.mode = "coaching"
    THEN /\ coachingConversation' = Append(currentConversation, message)
         /\ currentConversation' = Append(currentConversation, message)
         /\ UNCHANGED checkinConversation
    ELSE /\ currentConversation' = Append(currentConversation, message)
         /\ UNCHANGED <<checkinConversation, coachingConversation>>

\* the store part of addMessage: the three conversations after the call
addMessageConv(message) ==
    IF message.mode = "checkin"
    THEN /\ checkinConversation' = Append(checkinConversation, message)
         /\ currentConversation' = Append(checkinConversation, message)
         /\ UNCHANGED coachingConversation
    ELSE IF message.mode = "coaching"
    THEN /\ coachingConversation' = Append(coachingConversation, message)
         /\ currentConversation' = Append(coachingConversation, message)
         /\ UNCHANGED checkinConversation
    ELSE /\ currentConversation' = Append(currentConversation, message)
         /\ UNCHANGED <<checkinConversation, coachingConversation>>

\* addMessage(message), with the call recorded in the run's history
addMessage(message) ==
    /\ addMessageConv(message)
    /\ added' = Append(added, message)
    /\ nextId' = nextId + 1

StoreAddMessage ==
    /\ nextId <= MaxMsgs
    /\ \E role \in {"user", "agent"}, mode \in Modes \cup {"none"} :
           addMessage(Msg(nextId, role, "text", mode))
    /\ UNCHANGED <<dsrVars, settingsVars, offStore>>

clearConversation ==
    /\ currentConversation' = <<>>
    /\ UNCHANGED <<dsrVars, settingsVars, checkinConversation,
                   coachingConversation, added, nextId, offStore>>

InitConversations ==
    /\ currentConversation = <<>>
    /\ checkinConversation = <<>>
    /\ coachingConversation = <<>>
    /\ added = <<>>
    /\ nextId = 1

InitStoreDefault ==
    /\ voiceEnabled = FALSE
    /\ language = "english"
    /\ selectedPersona = "friendly"
    /\ InitConversations

\* ------------------------------------------------------------------------
\* Initial values of the parts a specification does not exercise
\* ------------------------------------------------------------------------


NoCall == [url |-> <<>>, xiApiKey |-> "none"]
NoResponse == [status |-> 0, code |-> "none", error |-> <<>>, details |-> <<>>,
               token |-> <<>>, expiresAt |-> <<>>]

InitTokenDefault ==
    /\ apiKeyEnv = "none"
    /\ agentConfigs = [p \in Personas |-> ""]
    /\ tokPc = "idle"
    /\ tokAgentId = "none"
    /\ tokWarned = FALSE
    /\ tokUpstream = NoCall
    /\ tokResponse = NoResponse

NoRequest == [messages |-> "none", list |-> <<>>, mode |-> "none",
              persona |-> "none", language |-> "none"]
NoApiResponse == [status |-> 0, response |-> <<>>, error |-> <<>>]

InitApiDefault ==
    /\ apiPc = "idle"
    /\ apiRequest = NoRequest
    /\ forwarded = <<>>
    /\ apiResponse = NoApiResponse

InitTtsDefault ==
    /\ currentAudio = 0
    /\ isSpeakingState = FALSE
    /\ audios = <<>>
    /\ speakCalls = <<>>

InitChatDefault ==
    /\ chatMode = "checkin"
    /\ sentWhile = {}
    /\ input = ""
    /\ isLoading = FALSE
    /\ requests = <<>>
    /\ posts = <<>>
    /\ voiceState = "disconnected"
    /\ voiceTexts = <<>>

NoRender == [convLen |-> 0, dsr |-> NullDSR, persona |-> "none"]
NoDeps == <<NullDSR, "none">>

InitPageDefault ==
    /\ pageMounted = FALSE
    /\ hasGreetedRef = FALSE
    /\ rendered = NoRender
    /\ effectDeps = NoDeps
    /\ greetingIds = {}

NoEnv == [ELEVENLABS_API_KEY |-> "none", PROFESSIONAL |-> "none",
          FRIENDLY |-> "none", MOTIVATOR |-> "none", ADVISOR |-> "none",
          TAMIL |-> "none"]

\* validateConfig has not been called
NoCfgResult == [called |-> FALSE,
                elevenlabsConfig |-> [valid |-> FALSE, errors |-> <<>>],
                speechSynthesis |-> [valid |-> FALSE, errors |-> <<>>]]

InitCfgDefault ==
    /\ env = NoEnv
    /\ isServer = FALSE
    /\ cfgResult = NoCfgResult

InitHookDefault ==
    /\ hookPhase = "new"
    /\ isConnecting = FALSE
    /\ agentConnected = FALSE
    /\ conversationIdRef = 0
    /\ connectPc = "idle"
    /\ agentError = "none"
    /\ microphonePermissionGranted = FALSE
    /\ autoConnect = FALSE
    /\ hasInitializedRef = FALSE
    /\ sessions = <<>>

\* a percentage string such as "85.5%": sign, integer part, first decimal
Pct(neg, int, frac) == [neg |-> neg, int |-> int, frac |-> frac]

NoDSRData == [target_achievement |-> Pct(FALSE, 0, 0),
              sales_growth_trend |-> Pct(FALSE, 0, 0),
              route_efficiency_score |-> 0,
              current_festive_season |-> "",
              competitor_presence |-> "High"]

NoInsightsCall == [fn |-> "none"]

InitInsDefault ==
    /\ dsrData = NoDSRData
    /\ outlets = <<>>
    /\ history = <<>>
    /\ now = 0
    /\ insResult = NoInsightsCall

InitLibDefault ==
    /\ InitCfgDefault
    /\ InitHookDefault
    /\ InitInsDefault

InitStore ==
    /\ InitChatDefault
    /\ InitPageDefault
    /\ InitTokenDefault
    /\ InitApiDefault
    /\ InitTtsDefault
    /\ InitLibDefault
    /\ allDSRs \in SeqsUpTo(DSRRecords, MaxRecords)
    /\ LET initialDSR == getInitialDSR(allDSRs)
       IN /\ selectedDSRId = initialDSR.dsrId
          /\ currentDSR = initialDSR.currentDSR
          /\ dsrHistory = initialDSR.history
    /\ InitStoreDefault

\* the DSR selection and the settings
NextDSR ==
    \/ setCurrentDSR
    \/ setSelectedDSRId
    \/ setVoiceEnabled
    \/ updateSettings
    \/ clearConversation

SpecDSR == InitStore /\ [][NextDSR]_vars

\* the application's own state when a specification exercises a library
InitAppDefault ==
    /\ InitChatDefault
    /\ InitPageDefault
    /\ InitTokenDefault
    /\ InitApiDefault
    /\ InitTtsDefault
    /\ allDSRs = <<>>
    /\ selectedDSRId = getInitialDSR(allDSRs).dsrId
    /\ currentDSR = getInitialDSR(allDSRs).currentDSR
    /\ dsrHistory = getInitialDSR(allDSRs).history
    /\ InitStoreDefault

InitConv ==
    /\ InitChatDefault
    /\ InitPageDefault
    /\ InitTokenDefault
    /\ InitApiDefault
    /\ InitTtsDefault
    /\ InitLibDefault
    /\ allDSRs = <<>>
    /\ selectedDSRId = getInitialDSR(allDSRs).dsrId
    /\ currentDSR = getInitialDSR(allDSRs).currentDSR
    /\ dsrHistory = getInitialDSR(allDSRs).history
    /\ InitStoreDefault

\* the conversations
NextStore ==
    \/ StoreAddMessage
    \/ clearConversation
    \/ setVoiceEnabled

SpecStore == InitConv /\ [][NextStore]_vars


\* ------------------------------------------------------------------------
\* Chat component: handleSend and the voice toggle
\* ------------------------------------------------------------------------

Inputs == {"  ", "hi"}
ReplyTexts == {"reply"}
VoiceContents == {"", "spoken"}

\* String.prototype.trim() on the inputs above
Trim(text) == IF text \in {"", "  "} THEN "" ELSE text

\* modeConversation = mode === "checkin" ? checkinConversation : coachingConversation
modeConversation(mode) ==
    IF mode = "checkin" THEN checkinConversation ELSE coachingConversation

\* Array.prototype.slice(-n)
SliceLast(s, n) == IF Len(s) <= n THEN s ELSE SubSeq(s, Len(s) - n + 1, Len(s))

TopN == 5            \* slice(0, 5) of getPriorityOutlets
HistoryWindow == 10

\* the fallback string of the catch block, by settings.language
FallbackText(lang) ==
    IF lang = "tamil" THEN "fallback-tamil" ELSE "fallback-english"

\* JSON body of the POST to /api/chat
chatRequestBody(messageText) ==
    [messages |->
        [i \in 1..Len(SliceLast(modeConversation(chatMode), HistoryWindow)) |->
            [role |-> SliceLast(modeConversation(chatMode), HistoryWindow)[i].role,
             content |-> SliceLast(modeConversation(chatMode), HistoryWindow)[i].content]]
        \o <<[role |-> "user", content |-> messageText]>>,
     mode |-> chatMode,
     language |-> language]

\* the send routed through the voice session while it is connected
issueRequest_voiceWhenConnected(messageText) ==
    IF voiceState = "connected" /\ voiceEnabled
    THEN /\ voiceTexts' = Append(voiceTexts, messageText)
         /\ UNCHANGED posts
    ELSE /\ posts' = Append(posts, chatRequestBody(messageText))
         /\ UNCHANGED voiceTexts

\* fetch("/api/chat", { method: "POST", ... })
issueRequest(messageText) ==
    /\ posts' = Append(posts, chatRequestBody(messageText))
    /\ UNCHANGED voiceTexts

SetInput ==
    \E text \in Inputs :
        /\ input' = text
        /\ UNCHANGED <<storeVars, chatMode, isLoading, requests,
                       posts, voiceState, voiceTexts, sentWhile, offChat>>

\* handleSend calls whose continuation has not finished
Pending == {r \in 1..Len(requests) : requests[r].pc \in {"awaitFetch", "awaitJson"}}

\* handleSend up to its first await
HandleSend ==
    /\ nextId + Cardinality(Pending) + 1 <= MaxChatMsgs
    /\ IF Trim(input) = "" \/ isLoading
       THEN UNCHANGED <<storeVars, chatVars>>
       ELSE /\ input' = ""
            /\ addMessage(Msg(nextId, "user", input, chatMode))
            /\ isLoading' = TRUE
            /\ issueRequest(input)
            /\ requests' = Append(requests,
                   [pc |-> "awaitFetch", mounted |-> TRUE,
                    mode |-> chatMode, language |-> language,
                    text |-> input,
                    userId |-> nextId, replyId |-> 0, reply |-> ""])
            /\ sentWhile' = sentWhile \cup {voiceState}
            /\ UNCHANGED <<dsrVars, settingsVars, chatMode, voiceState>>
    /\ UNCHANGED offChat

\* setIsLoading(false) of the finally block; a no-op once the instance that
\* made the call has been unmounted
finallyBlock(r) ==
    isLoading' = IF requests[r].mounted THEN FALSE ELSE isLoading

\* the catch block with the error only logged
catchBlock_logOnly(r) ==
    /\ requests' = [requests EXCEPT ![r].pc = "failed"]
    /\ UNCHANGED convVars
    /\ finallyBlock(r)

\* catch block followed by finally
catchBlock(r) ==
    /\ addMessage(Msg(nextId, "assistant",
                      FallbackText(requests[r].language), requests[r].mode))
    /\ requests' = [requests EXCEPT ![r].pc = "failed", ![r].replyId = nextId]
    /\ finallyBlock(r)

\* the fetch promise settles: fulfilled with an OK or non-OK response, or rejected
FetchSettles ==
    \E r \in 1..Len(requests), outcome \in {"ok", "notOk", "rejected"} :
        /\ requests[r].pc = "awaitFetch"
        /\ IF outcome = "ok"
           THEN /\ requests' = [requests EXCEPT ![r].pc = "awaitJson"]
                /\ UNCHANGED <<convVars, isLoading>>
           ELSE catchBlock(r)
        /\ UNCHANGED <<dsrVars, settingsVars, chatMode, input, posts,
                       voiceState, voiceTexts, sentWhile, offChat>>

\* response.json() settles: fulfilled with the body, or rejected
JsonSettles ==
    \E r \in 1..Len(requests), reply \in ReplyTexts \cup {"rejected"} :
        /\ requests[r].pc = "awaitJson"
        /\ IF reply # "rejected"
           THEN /\ addMessage(Msg(nextId, "assistant", reply, requests[r].mode))
                /\ requests' = [requests EXCEPT ![r].pc = "done",
                                                ![r].replyId = nextId,
                                                ![r].reply = reply]
                /\ finallyBlock(r)
           ELSE catchBlock(r)
        /\ UNCHANGED <<dsrVars, settingsVars, chatMode, input, posts,
                       voiceState, voiceTexts, sentWhile, offChat>>

\* toggle: connect() when not connected, disconnect() when connected; the
\* button is rendered only with voiceEnabled and disabled while connecting
ToggleVoice ==
    /\ voiceEnabled
    /\ voiceState # "connecting"
    /\ voiceState' = IF voiceState = "connected" THEN "disconnected"
                                                 ELSE "connecting"
    /\ UNCHANGED <<storeVars, chatMode, input, isLoading, requests,
                   posts, voiceTexts, sentWhile, offChat>>

\* connect() finishes: session started, or an error / refused permission
ConnectSettles ==
    \E ok \in BOOLEAN :
        /\ voiceState = "connecting"
        /\ voiceState' = IF ok THEN "connected" ELSE "disconnected"
        /\ UNCHANGED <<storeVars, chatMode, input, isLoading,
                       requests, posts, voiceTexts, sentWhile, offChat>>

\* handleMessage of the agent hook: skips empty content, else adds an
\* "agent" message with the hook's mode
VoiceMessage ==
    \E content \in VoiceContents :
        /\ voiceState = "connected"
        /\ nextId + Cardinality(Pending) <= MaxChatMsgs
        /\ IF Trim(content) = ""
           THEN UNCHANGED convVars
           ELSE addMessage(Msg(nextId, "agent", content, chatMode))
        /\ UNCHANGED <<dsrVars, settingsVars, chatVars, offChat>>

\* the page is left and a page with a chat component is opened: a new
\* instance with fresh local state
Remount ==
    \E mode \in Modes :
        /\ chatMode' = mode
        /\ input' = ""
        /\ isLoading' = FALSE
        /\ voiceState' = "disconnected"
        /\ requests' = [r \in 1..Len(requests) |->
                            [requests[r] EXCEPT !.mounted = FALSE]]
        /\ UNCHANGED <<storeVars, posts, voiceTexts, sentWhile, offChat>>

\* the component is mounted by either page, with the settings the user chose
InitChat ==
    /\ chatMode \in Modes
    /\ sentWhile = {}
    /\ input = ""
    /\ isLoading = FALSE
    /\ requests = <<>>
    /\ posts = <<>>
    /\ voiceState = "disconnected"
    /\ voiceTexts = <<>>
    /\ InitPageDefault
    /\ InitTokenDefault
    /\ InitApiDefault
    /\ InitTtsDefault
    /\ InitLibDefault
    /\ allDSRs = <<[dsr_id |-> "D1", date |-> 1]>>
    /\ selectedDSRId = "D1"
    /\ currentDSR = [dsr_id |-> "D1", date |-> 1]
    /\ dsrHistory = allDSRs
    /\ voiceEnabled \in BOOLEAN
    /\ language \in Languages
    /\ selectedPersona = "friendly"
    /\ InitConversations

NextChat ==
    \/ SetInput
    \/ HandleSend
    \/ FetchSettles
    \/ JsonSettles
    \/ ToggleVoice
    \/ ConnectSettles
    \/ VoiceMessage
    \/ Remount

SpecChat == InitChat /\ [][NextChat]_vars

\* every fetch and every response.json() promise settles
SpecChatFair ==
    /\ SpecChat
    /\ WF_vars(FetchSettles)
    /\ WF_vars(JsonSettles)

\* ------------------------------------------------------------------------
\* GET /api/voice/elevenlabs-token
\* ------------------------------------------------------------------------

\* "none" is undefined / null; strings are sequences of parts, so that a
\* value placed inside a message can be found again
KeyValues == {"none", "", "xi-secret"}
AgentIdParams == {"none", "", "agentA", "agentX"}
ConfiguredIds == {"", "agentA", "agentB"}
UpstreamStatuses == {400, 401, 404, 429, 500, 502, 503}
UpstreamBodies == {"text", "jsonMessage", "jsonNoMessage", "jsonNull"}

\* JavaScript truthiness of a string | undefined
Truthy(v) == v \notin {"none", ""}

Contains(str, v) == \E i \in 1..Len(str) : str[i] = v

ErrorResponse(status, code, error, details) ==
    [status |-> status, code |-> code, error |-> error, details |-> details,
     token |-> <<>>, expiresAt |-> <<>>]

\* steps 1 and 2 with the agentId test before the API key test
validateRequest_agentFirst(apiKey, agentId) ==
    IF ~Truthy(agentId) THEN "MISSING_AGENT_ID"
    ELSE IF ~Truthy(apiKey) THEN "MISSING_API_KEY"
    ELSE "proceed"

\* steps 1 and 2: the early returns of the handler, in order
validateRequest(apiKey, agentId) ==
    IF ~Truthy(apiKey) THEN "MISSING_API_KEY"
    ELSE IF ~Truthy(agentId) THEN "MISSING_AGENT_ID"
    ELSE "proceed"

\* step 3: Object.values(agentConfigs).some((config) => config.agentId === agentId)
isValidAgent(agentId) == \E p \in Personas : agentConfigs[p] = agentId

\* step 1 to step 4 of GET
TokenGET ==
    \E agentId \in AgentIdParams :
        /\ tokPc \in {"idle", "responded"}
        /\ tokAgentId' = agentId
        /\ LET verdict == validateRequest(apiKeyEnv, agentId)
           IN IF verdict = "MISSING_API_KEY"
              THEN /\ tokResponse' = ErrorResponse(500, "MISSING_API_KEY",
                          <<"ElevenLabs API key not configured">>,
                          <<"Set ELEVENLABS_API_KEY in .env.local">>)
                   /\ tokPc' = "responded"
                   /\ tokUpstream' = NoCall
                   /\ tokWarned' = FALSE
              ELSE IF verdict = "MISSING_AGENT_ID"
              THEN /\ tokResponse' = ErrorResponse(400, "MISSING_AGENT_ID",
                          <<"Missing agentId parameter">>,
                          <<"Provide agentId in query string: ?agentId=your_agent_id">>)
                   /\ tokPc' = "responded"
                   /\ tokUpstream' = NoCall
                   /\ tokWarned' = FALSE
              ELSE /\ tokWarned' = (~isValidAgent(agentId) /\ Truthy(agentId))
                   /\ tokUpstream' =
                          [url |-> <<"/convai/conversation/token?agent_id=", agentId>>,
                           xiApiKey |-> apiKeyEnv]
                   /\ tokResponse' = NoResponse
                   /\ tokPc' = "awaitUpstream"
        /\ UNCHANGED <<apiKeyEnv, agentConfigs, offToken>>

\* the user message and code of step 5, by upstream status
userMessage(status, agentId) ==
    IF status = 401 THEN <<"Invalid API key">>
    ELSE IF status = 404 THEN <<"Agent not found: ", agentId>>
    ELSE IF status = 429 THEN <<"Rate limit exceeded. Please try again later.">>
    ELSE IF status \in {500, 502, 503}
         THEN <<"ElevenLabs service temporarily unavailable">>
    ELSE <<"Failed to generate conversation token">>

errorCode(status) ==
    IF status = 401 THEN "INVALID_API_KEY"
    ELSE IF status = 404 THEN "AGENT_NOT_FOUND"
    ELSE IF status = 429 THEN "RATE_LIMIT"
    ELSE IF status \in {500, 502, 503} THEN "SERVICE_UNAVAILABLE"
    ELSE "TOKEN_GENERATION_FAILED"

\* step 7: the outer catch
internalError(message) ==
    ErrorResponse(500, "INTERNAL_ERROR", <<"Internal server error">>, <<message>>)

\* step 5 with the rejected key quoted in the 401 message
upstreamError_quotesKey(status, body) ==
    IF body = "jsonNull"
    THEN internalError("Cannot read properties of null")
    ELSE ErrorResponse(status, errorCode(status),
             IF status = 401 THEN <<"Invalid API key: ", apiKeyEnv>>
                             ELSE userMessage(status, tokAgentId),
             IF body = "jsonMessage" THEN <<"vendor-message">>
                                     ELSE <<"vendor-text">>)

\* step 5: the response for a non-OK upstream reply whose body is plain text,
\* JSON with a message, JSON without one, or the JSON value null
upstreamError(status, body) ==
    IF body = "jsonNull"
    THEN internalError("Cannot read properties of null")
    ELSE ErrorResponse(status, errorCode(status), userMessage(status, tokAgentId),
             IF body = "jsonMessage" THEN <<"vendor-message">>
                                     ELSE <<"vendor-text">>)

\* steps 5 to 7: the upstream fetch settles and the handler answers
TokenUpstreamSettles ==
    /\ tokPc = "awaitUpstream"
    /\ tokPc' = "responded"
    /\ \/ \* fetch rejects
          tokResponse' = internalError("fetch failed")
       \/ \* non-OK reply
          \E status \in UpstreamStatuses, body \in UpstreamBodies :
              tokResponse' = upstreamError(status, body)
       \/ \* OK reply whose body does not parse
          tokResponse' = internalError("Unexpected token in JSON")
       \/ \* OK reply
          \E expires \in {<<>>, <<"2024-01-01T00:00:00Z">>} :
              tokResponse' = [status |-> 200, code |-> "none", error |-> <<>>,
                              details |-> <<>>, token |-> <<"conversation-token">>,
                              expiresAt |-> expires]
    /\ UNCHANGED <<apiKeyEnv, agentConfigs, tokAgentId, tokWarned, tokUpstream,
                   offToken>>

InitToken ==
    /\ apiKeyEnv \in KeyValues
    /\ agentConfigs \in [Personas -> ConfiguredIds]
    /\ tokPc = "idle"
    /\ tokAgentId = "none"
    /\ tokWarned = FALSE
    /\ tokUpstream = NoCall
    /\ tokResponse = NoResponse
    /\ InitChatDefault
    /\ InitPageDefault
    /\ InitApiDefault
    /\ InitTtsDefault
    /\ InitLibDefault
    /\ allDSRs = <<>>
    /\ selectedDSRId = ""
    /\ currentDSR = NullDSR
    /\ dsrHistory = <<>>
    /\ InitStoreDefault

NextToken ==
    \/ TokenGET
    \/ TokenUpstreamSettles

SpecToken == InitToken /\ [][NextToken]_vars

\* ------------------------------------------------------------------------
\* Properties of the token route
\* ------------------------------------------------------------------------

\* C4: a conversation-token request goes to the ElevenLabs API only for an
\* agentId that is one of the agent IDs in agentConfigs.
C4_UpstreamOnlyForConfiguredAgent ==
    tokUpstream # NoCall => isValidAgent(tokAgentId)

ResponseFields(resp) == {resp.error, resp.details, resp.token, resp.expiresAt}

C6_ChecksInFixedOrder ==
    tokPc # "idle" =>
        /\ ~Truthy(apiKeyEnv) =>
               /\ tokPc = "responded"
               /\ tokResponse.status = 500
               /\ tokResponse.code = "MISSING_API_KEY"
               /\ tokUpstream = NoCall
        /\ (Truthy(apiKeyEnv) /\ ~Truthy(tokAgentId)) =>
               /\ tokPc = "responded"
               /\ tokResponse.status = 400
               /\ tokResponse.code = "MISSING_AGENT_ID"
               /\ tokUpstream = NoCall

\* both early returns have been taken: no key with an agentId, no key and no
\* agentId, or a key and no agentId
C6_Witness ==
    /\ tokPc = "responded"
    /\ \/ ~Truthy(apiKeyEnv) /\ Truthy(tokAgentId)
       \/ Truthy(apiKeyEnv) /\ ~Truthy(tokAgentId)

\* ------------------------------------------------------------------------
\* POST /api/chat
\* ------------------------------------------------------------------------

ApiRoles == {"user", "assistant", "agent", "system"}
ApiContents == {<<"a">>, <<"b">>}
ApiMessages == [role : ApiRoles, content : ApiContents]

\* bodies of the request: no messages field, a messages field that is not an
\* array, an array, or a body that is not JSON
ApiRequests ==
    [messages : {"none", "notArray", "badJson"}, list : {<<>>},
     mode : {"checkin"}, persona : {"friendly"}, language : {"english"}]
    \cup
    {[messages |-> "array", list |-> l, mode |-> "checkin",
      persona |-> "professional", language |-> "english"] :
         l \in SeqsUpTo(ApiMessages, MaxApiMsgs)}
    \cup
    {[messages |-> "array", list |-> l, mode |-> "coaching",
      persona |-> "unknown", language |-> "tamil"] :
         l \in SeqsUpTo(ApiMessages, MaxApiMsgs)}

\* buildSystemPrompt: the persona style (friendly when the persona is not
\* known), the Tamil instruction, and the section of the mode
buildSystemPrompt(mode, persona, lang) ==
    <<"baseContext",
      IF persona \in Personas THEN persona ELSE "friendly",
      IF lang = "tamil" THEN "respond in Tamil" ELSE "",
      IF mode = "checkin" THEN "Mode: Check-In" ELSE "Mode: Coaching">>

\* the role sent as it was received
mapRole_unchanged(role) == role

\* msg.role === "agent" ? "assistant" : msg.role
mapRole(role) == IF role = "agent" THEN "assistant" ELSE role

\* the messages argument of openai.chat.completions.create
completionMessages(req) ==
    <<[role |-> "system",
       content |-> buildSystemPrompt(req.mode, req.persona, req.language)]>>
    \o [i \in 1..Len(req.list) |->
           [role |-> mapRole(req.list[i].role), content |-> req.list[i].content]]

\* POST up to the await of the completion call
ChatPOST ==
    \E req \in ApiRequests :
        /\ apiPc \in {"idle", "responded"}
        /\ apiRequest' = req
        /\ IF req.messages = "badJson"
           THEN /\ apiResponse' = [status |-> 500, response |-> <<>>,
                                   error |-> <<"Unexpected token in JSON">>]
                /\ forwarded' = <<>>
                /\ apiPc' = "responded"
           ELSE IF req.messages # "array"
           THEN /\ apiResponse' = [status |-> 400, response |-> <<>>,
                                   error |-> <<"Messages array is required">>]
                /\ forwarded' = <<>>
                /\ apiPc' = "responded"
           ELSE /\ forwarded' = completionMessages(req)
                /\ apiResponse' = NoApiResponse
                /\ apiPc' = "awaitCompletion"
        /\ UNCHANGED offApi

\* the completion call returns a choice, returns none, or throws
ChatCompletionSettles ==
    \E outcome \in {"content", "noChoice", "throws"} :
        /\ apiPc = "awaitCompletion"
        /\ apiPc' = "responded"
        /\ apiResponse' =
               IF outcome = "content"
               THEN [status |-> 200, response |-> <<"completion">>, error |-> <<>>]
               ELSE IF outcome = "noChoice"
               THEN [status |-> 200, response |-> <<>>, error |-> <<>>]
               ELSE [status |-> 500, response |-> <<>>, error |-> <<"api error">>]
        /\ UNCHANGED <<apiRequest, forwarded, offApi>>

InitApi ==
    /\ InitApiDefault
    /\ InitTtsDefault
    /\ InitLibDefault
    /\ InitChatDefault
    /\ InitPageDefault
    /\ InitTokenDefault
    /\ allDSRs = <<>>
    /\ selectedDSRId = ""
    /\ currentDSR = NullDSR
    /\ dsrHistory = <<>>
    /\ InitStoreDefault

NextApi ==
    \/ ChatPOST
    \/ ChatCompletionSettles

SpecApi == InitApi /\ [][NextApi]_vars

\* ------------------------------------------------------------------------
\* Properties of the chat route
\* ------------------------------------------------------------------------

\* C7: the completion call gets one system message and then the request's
\* messages in their order with their content; role "agent" is sent as
\* "assistant", every other role as it is, and no message is sent as "agent".
C7_ForwardedMessages ==
    /\ apiRequest.messages = "array" <=> forwarded # <<>>
    /\ forwarded # <<>> =>
           /\ Len(forwarded) = Len(apiRequest.list) + 1
           /\ forwarded[1].role = "system"
           /\ \A i \in 1..Len(apiRequest.list) :
                  /\ forwarded[i + 1].content = apiRequest.list[i].content
                  /\ forwarded[i + 1].role # "agent"
                  /\ apiRequest.list[i].role = "agent" =>
                         forwarded[i + 1].role = "assistant"
                  /\ apiRequest.list[i].role # "agent" =>
                         forwarded[i + 1].role = apiRequest.list[i].role

\* a request with an "agent" message followed by a "user" message was forwarded
C7_Witness ==
    /\ Len(forwarded) = 3
    /\ apiRequest.list[1].role = "agent"
    /\ apiRequest.list[2].role = "user"
    /\ apiPc = "responded"

\* ------------------------------------------------------------------------
\* OpenAITTS
\* ------------------------------------------------------------------------

\* an Audio element is "starting" between play() and the settling of its
\* promise, then "playing"; pause() makes it "paused"; "ended" after the
\* ended or error event

\* cancel(): the fields of the instance and the elements after the call
cancelled ==
    IF currentAudio # 0
    THEN [audio |-> 0, speaking |-> FALSE,
          audios |-> [audios EXCEPT ![currentAudio] = "paused"]]
    ELSE [audio |-> currentAudio, speaking |-> isSpeakingState, audios |-> audios]

\* speak() up to the await of fetch
Speak ==
    /\ Len(speakCalls) < MaxSpeaks
    /\ currentAudio' = cancelled.audio
    /\ audios' = cancelled.audios
    /\ isSpeakingState' = TRUE
    /\ speakCalls' = Append(speakCalls, [pc |-> "awaitFetch", audio |-> 0])
    /\ UNCHANGED offTts

\* the catch block of speak()
TtsCatch(c) ==
    /\ isSpeakingState' = FALSE
    /\ speakCalls' = [speakCalls EXCEPT ![c].pc = "done"]

\* fetch("/api/tts") settles
TtsFetchSettles ==
    \E c \in 1..Len(speakCalls), outcome \in {"ok", "notOk", "rejected"} :
        /\ speakCalls[c].pc = "awaitFetch"
        /\ IF outcome = "ok"
           THEN /\ speakCalls' = [speakCalls EXCEPT ![c].pc = "awaitBlob"]
                /\ UNCHANGED isSpeakingState
           ELSE TtsCatch(c)
        /\ UNCHANGED <<currentAudio, audios, offTts>>

\* response.blob() settles; on success the element is created, becomes
\* currentAudio and play() is called
TtsBlobSettles ==
    \E c \in 1..Len(speakCalls), ok \in BOOLEAN :
        /\ speakCalls[c].pc = "awaitBlob"
        /\ IF ok
           THEN /\ audios' = Append(audios, "starting")
                /\ currentAudio' = Len(audios) + 1
                /\ speakCalls' = [speakCalls EXCEPT ![c].pc = "awaitPlay",
                                                    ![c].audio = Len(audios) + 1]
                /\ UNCHANGED isSpeakingState
           ELSE /\ TtsCatch(c)
                /\ UNCHANGED <<currentAudio, audios>>
        /\ UNCHANGED offTts

\* the promise of play() settles: fulfilled once playback has started,
\* rejected when the browser refuses or the element was paused meanwhile
TtsPlaySettles ==
    \E c \in 1..Len(speakCalls), allowed \in BOOLEAN :
        /\ speakCalls[c].pc = "awaitPlay"
        /\ IF audios[speakCalls[c].audio] = "starting" /\ allowed
           THEN /\ audios' = [audios EXCEPT ![speakCalls[c].audio] = "playing"]
                /\ speakCalls' = [speakCalls EXCEPT ![c].pc = "done"]
                /\ UNCHANGED isSpeakingState
           ELSE /\ audios' = [audios EXCEPT ![speakCalls[c].audio] =
                                 IF @ = "starting" THEN "paused" ELSE @]
                /\ TtsCatch(c)
        /\ UNCHANGED <<currentAudio, offTts>>

\* onended / onerror of an element
AudioEnded ==
    \E a \in 1..Len(audios) :
        /\ audios[a] \in {"starting", "playing"}
        /\ audios' = [audios EXCEPT ![a] = "ended"]
        /\ isSpeakingState' = FALSE
        /\ currentAudio' = 0
        /\ UNCHANGED <<speakCalls, offTts>>

\* cancel() called from outside speak()
Cancel ==
    /\ currentAudio' = cancelled.audio
    /\ audios' = cancelled.audios
    /\ isSpeakingState' = cancelled.speaking
    /\ UNCHANGED <<speakCalls, offTts>>

\* pause()
Pause ==
    /\ currentAudio # 0
    /\ audios[currentAudio] \in {"starting", "playing"}
    /\ audios' = [audios EXCEPT ![currentAudio] = "paused"]
    /\ UNCHANGED <<currentAudio, isSpeakingState, speakCalls, offTts>>

\* resume()
Resume ==
    /\ currentAudio # 0
    /\ audios[currentAudio] = "paused"
    /\ audios' = [audios EXCEPT ![currentAudio] = "playing"]
    /\ UNCHANGED <<currentAudio, isSpeakingState, speakCalls, offTts>>

InitTts ==
    /\ InitTtsDefault
    /\ InitLibDefault
    /\ InitApiDefault
    /\ InitChatDefault
    /\ InitPageDefault
    /\ InitTokenDefault
    /\ allDSRs = <<>>
    /\ selectedDSRId = ""
    /\ currentDSR = NullDSR
    /\ dsrHistory = <<>>
    /\ InitStoreDefault

NextTts ==
    \/ Speak
    \/ TtsFetchSettles
    \/ TtsBlobSettles
    \/ TtsPlaySettles
    \/ AudioEnded
    \/ Cancel
    \/ Pause
    \/ Resume

SpecTts == InitTts /\ [][NextTts]_vars

\* ------------------------------------------------------------------------
\* Properties of OpenAITTS
\* ------------------------------------------------------------------------

\* C9: at most one Audio element created by the instance is playing at any
\* time, whatever the interleaving of speak() calls with their completions.
C9_AtMostOnePlaying ==
    Cardinality({a \in 1..Len(audios) : audios[a] = "playing"}) <= 1

\* ------------------------------------------------------------------------
\* Check-in page: the greeting effect
\* ------------------------------------------------------------------------

\* what a render of the page reads from the store
Snapshot == [convLen |-> Len(checkinConversation), dsr |-> currentDSR,
             persona |-> selectedPersona]

\* the values of the effect's dependencies in a render ([currentDSR, outlets,
\* selectedPersona, addMessage, speak]); outlets and addMessage never change,
\* speak changes with selectedPersona
Deps(r) == <<r.dsr, r.persona>>

\* the greeting test without the look at the conversation
shouldGreet_refOnly(convLen, greeted) == ~greeted

\* checkinConversation.length === 0 && !hasGreetedRef.current
shouldGreet(convLen, greeted) == convLen = 0 /\ ~greeted

\* the page is opened: first render of a new instance
PageMount ==
    /\ ~pageMounted
    /\ pageMounted' = TRUE
    /\ hasGreetedRef' = FALSE
    /\ rendered' = Snapshot
    /\ effectDeps' = NoDeps
    /\ UNCHANGED <<greetingIds, storeVars, offPage>>

PageUnmount ==
    /\ pageMounted
    /\ pageMounted' = FALSE
    /\ UNCHANGED <<hasGreetedRef, rendered, effectDeps, greetingIds,
                   storeVars, offPage>>

\* the store changed: the page renders again
PageRender ==
    /\ pageMounted
    /\ rendered # Snapshot
    /\ rendered' = Snapshot
    /\ UNCHANGED <<pageMounted, hasGreetedRef, effectDeps, greetingIds,
                   storeVars, offPage>>

\* the body of the effect, run with the values of the latest render
effectBody ==
    IF rendered.dsr # NullDSR /\ shouldGreet(rendered.convLen, hasGreetedRef)
    THEN /\ hasGreetedRef' = TRUE
         /\ addMessage(Msg(nextId, "assistant", "briefing", "checkin"))
         /\ greetingIds' = greetingIds \cup {nextId}
    ELSE UNCHANGED <<hasGreetedRef, greetingIds, convVars>>

\* the effect runs after the first render and after a render in which a
\* dependency changed
PageEffect ==
    /\ pageMounted
    /\ Deps(rendered) # effectDeps
    /\ effectDeps' = Deps(rendered)
    /\ effectBody
    /\ UNCHANGED <<pageMounted, rendered, dsrVars, settingsVars, offPage>>

\* development builds run the effect of a mounted component a second time,
\* with the same render and the same refs
StrictModeReplay ==
    /\ pageMounted
    /\ effectDeps # NoDeps
    /\ effectBody
    /\ UNCHANGED <<pageMounted, rendered, effectDeps, dsrVars, settingsVars,
                   offPage>>

\* a message of the check-in conversation from the chat component, the voice
\* agent or handleOutletSelect
OtherMessage ==
    \E role \in {"user", "assistant"} :
        /\ Len(added) - Cardinality(greetingIds) < MaxPageMsgs
        /\ addMessage(Msg(nextId, role, "text", "checkin"))
        /\ UNCHANGED <<dsrVars, settingsVars, pageVars, offPage>>

InitPage ==
    /\ InitPageDefault
    /\ InitChatDefault
    /\ InitTokenDefault
    /\ InitApiDefault
    /\ InitTtsDefault
    /\ InitLibDefault
    /\ allDSRs \in {<<>>, <<[dsr_id |-> "D1", date |-> 1],
                           [dsr_id |-> "D2", date |-> 1]>>}
    /\ selectedDSRId = getInitialDSR(allDSRs).dsrId
    /\ currentDSR = getInitialDSR(allDSRs).currentDSR
    /\ dsrHistory = getInitialDSR(allDSRs).history
    /\ InitStoreDefault

NextPage ==
    \/ PageMount
    \/ PageUnmount
    \/ PageRender
    \/ PageEffect
    \/ StrictModeReplay
    \/ OtherMessage
    \/ setSelectedDSRId
    \/ setSelectedPersona

SpecPage == InitPage /\ [][NextPage]_vars

\* ------------------------------------------------------------------------
\* Properties of the check-in page
\* ------------------------------------------------------------------------

\* C10: over mounts, unmounts, effect re-runs and message additions the
\* check-in conversation holds at most one greeting generated by the page.
C10_AtMostOneGreeting ==
    Cardinality({i \in 1..Len(checkinConversation) :
                     checkinConversation[i].id \in greetingIds}) <= 1

\* the page greeted, was left and opened again, its DSR changed and the
\* effect of the new instance has run
C10_Witness ==
    /\ Cardinality(greetingIds) = 1
    /\ pageMounted
    /\ ~hasGreetedRef
    /\ effectDeps # NoDeps
    /\ currentDSR.dsr_id = "D2"
    /\ effectDeps = Deps(Snapshot)

\* ------------------------------------------------------------------------
\* Properties of the chat component
\* ------------------------------------------------------------------------

Finished(r) == requests[r].pc \in {"done", "failed"}

WithRole(msgs, role) == SelectSeq(msgs, LAMBDA m : m.role = role)

Positions(msgs, id) == {i \in 1..Len(msgs) : msgs[i].id = id}

\* the conversation part of C2
C2_Conversation ==
    /\ Len(posts) = Len(requests)
    /\ Len(WithRole(checkinConversation \o coachingConversation, "user"))
           = Len(requests)
    /\ Len(WithRole(checkinConversation \o coachingConversation, "assistant"))
           = Cardinality({r \in 1..Len(requests) : Finished(r)})
    /\ \A r \in 1..Len(requests) :
           LET conv == modeConversation(requests[r].mode)
               sent == Positions(conv, requests[r].userId)
               answered == Positions(conv, requests[r].replyId)
           IN /\ Cardinality(sent) = 1
              /\ \A i \in sent : /\ conv[i].role = "user"
                                 /\ conv[i].content = requests[r].text
              /\ Cardinality(answered) = IF Finished(r) THEN 1 ELSE 0
              /\ \A j \in answered :
                     /\ conv[j].role = "assistant"
                     /\ \A i \in sent : i < j
                     /\ requests[r].pc = "done" =>
                            conv[j].content = requests[r].reply
                     /\ requests[r].pc = "failed" =>
                            conv[j].content = FallbackText(requests[r].language)
              /\ (requests[r].mounted /\ ~Finished(r)) => isLoading

\* C2: every accepted handleSend adds to its mode's conversation exactly one
\* user message and, after it, exactly one assistant message (the API reply
\* on success, the fallback string when the request fails), with a single
\* POST and no retry; and isLoading, once true, becomes false again.
C2_SendGainsUserThenAssistant ==
    /\ []C2_Conversation
    /\ (isLoading = TRUE) ~> (isLoading = FALSE)

\* one send was answered by the API and one by the fallback string
C2_Witness ==
    /\ \E r \in 1..Len(requests) : requests[r].pc = "done"
    /\ \E r \in 1..Len(requests) : requests[r].pc = "failed"
    /\ isLoading = FALSE

\* ------------------------------------------------------------------------
\* Properties of the store
\* ------------------------------------------------------------------------

OfMode(msgs, mode) == SelectSeq(msgs, LAMBDA m : m.mode = mode)

\* C3: each mode's conversation holds exactly the messages added with that
\* mode, in the order they were added; messages of another mode (or of no
\* mode) never enter it.
C3_ModeConversations ==
    /\ checkinConversation = OfMode(added, "checkin")
    /\ coachingConversation = OfMode(added, "coaching")

\* messages of both modes and one without a mode have been added
C3_Witness ==
    /\ Len(checkinConversation) > 0
    /\ Len(coachingConversation) > 0
    /\ Len(added) > Len(checkinConversation) + Len(coachingConversation)

RecordsOf(dsrId) == {allDSRs[i] : i \in {j \in 1..Len(allDSRs) : allDSRs[j].dsr_id = dsrId}}

CountIn(s, r) == Cardinality({i \in 1..Len(s) : s[i] = r})

\* C8: currentDSR is the latest-dated record of the DSR identified by
\* selectedDSRId, and dsrHistory lists all records of that DSR, latest first.
C8_CurrentIsLatestOfSelected ==
    IF RecordsOf(selectedDSRId) = {}
    THEN currentDSR = NullDSR /\ dsrHistory = <<>>
    ELSE /\ currentDSR \in RecordsOf(selectedDSRId)
         /\ \A r \in RecordsOf(selectedDSRId) : r.date <= currentDSR.date
         /\ \A r \in DSRRecords :
                CountIn(dsrHistory, r) = CountIn(FilterById(allDSRs, selectedDSRId), r)
         /\ \A i \in 1..(Len(dsrHistory) - 1) :
                dsrHistory[i].date >= dsrHistory[i + 1].date

\* ------------------------------------------------------------------------
\* Voice configuration: validateConfig
\* ------------------------------------------------------------------------

\* values of an environment variable: unset, empty, set
AgentEnvValues == {"none", "", "agentA"}

Envs == [ELEVENLABS_API_KEY : KeyValues, PROFESSIONAL : AgentEnvValues,
         FRIENDLY : AgentEnvValues, MOTIVATOR : AgentEnvValues,
         ADVISOR : AgentEnvValues, TAMIL : {"none", "agentT"}]

\* process.env.X || ""
OrEmpty(v) == IF Truthy(v) THEN v ELSE ""

\* obj.key (undefined when the object has no such property)
Get(obj, key) == IF key \in DOMAIN obj THEN obj[key] ELSE "none"

\* Object.entries(agentConfigs): the keys in the order of the literal
PersonaOrder == <<"professional", "friendly", "motivator", "advisor">>

EnvNameOf(persona) ==
    CASE persona = "professional" -> "PROFESSIONAL"
      [] persona = "friendly" -> "FRIENDLY"
      [] persona = "motivator" -> "MOTIVATOR"
      [] persona = "advisor" -> "ADVISOR"

\* elevenlabs-config.ts: Record<PersonaType, AgentConfig>
agentConfigsFlat(e) ==
    [p \in Personas |-> [agentId |-> OrEmpty(e[EnvNameOf(p)]), name |-> p]]

tamilAgentId(e) == OrEmpty(e.TAMIL)

\* speech-synthesis.ts: Record<PersonaType, LanguageAgentConfig>
agentConfigsByLanguage(e) ==
    [p \in Personas |->
        [english |-> [agentId |-> OrEmpty(e[EnvNameOf(p)]), name |-> p],
         tamil |-> [agentId |-> tamilAgentId(e), name |-> "tamil"]]]

noApiKey == <<"noApiKey">>
noAgentId(persona) == <<"noAgentId", persona>>

RECURSIVE agentErrors(_, _)
\* the forEach over Object.entries(agentConfigs), from entry i on
agentErrors(configs, i) ==
    IF i > Len(PersonaOrder) THEN <<>>
    ELSE (IF ~Truthy(Get(configs[PersonaOrder[i]], "agentId"))
          THEN <<noAgentId(PersonaOrder[i])>> ELSE <<>>)
         \o agentErrors(configs, i + 1)

\* validateConfig(): the same text in both modules, over the module's own
\* agentConfigs
validateConfig(configs, server, e) ==
    LET errors == (IF server /\ ~Truthy(e.ELEVENLABS_API_KEY)
                   THEN <<noApiKey>> ELSE <<>>)
                  \o agentErrors(configs, 1)
    IN [valid |-> Len(errors) = 0, errors |-> errors]

ValidateConfig ==
    /\ ~cfgResult.called
    /\ cfgResult' =
           [called |-> TRUE,
            elevenlabsConfig |->
                validateConfig(agentConfigsFlat(env), isServer, env),
            speechSynthesis |->
                validateConfig(agentConfigsByLanguage(env), isServer, env)]
    /\ UNCHANGED <<env, isServer, offCfg>>

InitConfig ==
    /\ InitAppDefault
    /\ InitHookDefault
    /\ InitInsDefault
    /\ env \in Envs
    /\ isServer \in BOOLEAN
    /\ cfgResult = NoCfgResult

NextConfig ==
    \/ ValidateConfig

SpecConfig == InitConfig /\ [][NextConfig]_vars

\* ------------------------------------------------------------------------
\* Properties of validateConfig
\* ------------------------------------------------------------------------

\* the personas without a configured agent ID
MissingAgents == {p \in Personas : ~Truthy(env[EnvNameOf(p)])}

MissingKey == isServer /\ ~Truthy(env.ELEVENLABS_API_KEY)

MissingSettings == Cardinality(MissingAgents) + (IF MissingKey THEN 1 ELSE 0)

ValidatesRequired(r) ==
    /\ r.valid = (MissingSettings = 0)
    /\ Len(r.errors) = MissingSettings

\* C11: validateConfig of either module returns valid = true exactly when an
\* agent ID is configured for every persona (and, on the server, the API key
\* is set), and otherwise valid = false with one error per missing setting.
C11_ValidIffAllConfigured ==
    cfgResult.called =>
        /\ ValidatesRequired(cfgResult.elevenlabsConfig)
        /\ ValidatesRequired(cfgResult.speechSynthesis)

\* ------------------------------------------------------------------------
\* useElevenLabsAgent: connection lifecycle of one component instance
\* ------------------------------------------------------------------------

\* conversation.endSession(): the open session of the conversation ends
endSession(ss) == [i \in 1..Len(ss) |-> "ended"]

\* the parts of the hook that no step of connect() writes
hookFixed == <<hookPhase, autoConnect, hasInitializedRef>>

\* connect() up to its first await
connectBegins ==
    /\ \E agentId \in {"", "agentA"} :
           IF ~Truthy(agentId)
           THEN \* throw: catch sets the error, finally clears isConnecting
                /\ isConnecting' = FALSE
                /\ agentConnected' = FALSE
                /\ agentError' = "CONNECTION_FAILED"
                /\ connectPc' = "idle"
           ELSE /\ isConnecting' = TRUE
                /\ connectPc' = "permission"
                /\ UNCHANGED <<agentConnected, agentError>>
    /\ UNCHANGED <<conversationIdRef, microphonePermissionGranted, sessions>>

\* first render of the component, then its effects: the auto-connect effect
\* calls connect() when the option is set
HookMount ==
    /\ hookPhase = "new"
    /\ hookPhase' = "mounted"
    /\ IF autoConnect /\ ~hasInitializedRef
       THEN /\ hasInitializedRef' = TRUE
            /\ connectBegins
       ELSE UNCHANGED <<hasInitializedRef, isConnecting, agentConnected,
                        conversationIdRef, connectPc, agentError,
                        microphonePermissionGranted, sessions>>
    /\ UNCHANGED <<autoConnect, offHook>>

\* the component calls connect() from toggle when not connected, and its
\* button is disabled while isConnecting
Connect ==
    /\ hookPhase = "mounted"
    /\ ~isConnecting
    /\ ~agentConnected
    /\ connectPc = "idle"
    /\ Len(sessions) < MaxSessions
    /\ connectBegins
    /\ UNCHANGED <<hookFixed, offHook>>

\* the catch and finally blocks of connect()
connectFails ==
    /\ agentConnected' = FALSE
    /\ agentError' = "CONNECTION_FAILED"
    /\ isConnecting' = FALSE
    /\ connectPc' = "idle"

\* await requestMicrophonePermission()
PermissionSettles ==
    /\ connectPc = "permission"
    /\ \E granted \in BOOLEAN :
           IF granted
           THEN /\ microphonePermissionGranted' = TRUE
                /\ connectPc' = "resume"
                /\ UNCHANGED <<isConnecting, agentError>>
           ELSE \* return false; finally
                /\ agentError' = "MICROPHONE_PERMISSION_DENIED"
                /\ connectPc' = "idle"
                /\ isConnecting' = FALSE
                /\ UNCHANGED microphonePermissionGranted
    /\ UNCHANGED <<agentConnected, conversationIdRef, sessions, hookFixed,
                   offHook>>

\* await resumeAudioContext(): its errors are caught inside
ResumeSettles ==
    /\ connectPc = "resume"
    /\ connectPc' = "token"
    /\ UNCHANGED <<isConnecting, agentConnected, conversationIdRef, agentError,
                   microphonePermissionGranted, sessions, hookFixed, offHook>>

\* await fetch of the token route and response.json()
TokenSettles ==
    /\ connectPc = "token"
    /\ \E ok \in BOOLEAN :
           IF ok
           THEN /\ connectPc' = "starting"
                /\ UNCHANGED <<isConnecting, agentConnected, agentError>>
           ELSE connectFails
    /\ UNCHANGED <<conversationIdRef, microphonePermissionGranted, sessions,
                   hookFixed, offHook>>

\* await conversation.startSession(...): the session is open when it
\* resolves; then conversationIdRef.current = conversationId and connected
StartSessionSettles ==
    /\ connectPc = "starting"
    /\ \E ok \in BOOLEAN :
           IF ok
           THEN /\ sessions' = Append(sessions, "active")
                /\ conversationIdRef' = Len(sessions) + 1
                /\ agentConnected' = TRUE
                /\ agentError' = "none"
                /\ connectPc' = "volume"
                /\ UNCHANGED isConnecting
           ELSE /\ connectFails
                /\ UNCHANGED <<sessions, conversationIdRef>>
    /\ UNCHANGED <<microphonePermissionGranted, hookFixed, offHook>>

\* the wait and the volume retries; return true; finally
ConnectReturns ==
    /\ connectPc = "volume"
    /\ connectPc' = "idle"
    /\ isConnecting' = FALSE
    /\ UNCHANGED <<agentConnected, conversationIdRef, agentError,
                   microphonePermissionGranted, sessions, hookFixed, offHook>>

\* disconnect(), called from toggle when connected; handleDisconnect runs
Disconnect ==
    /\ hookPhase = "mounted"
    /\ agentConnected
    /\ ~isConnecting
    /\ sessions' = endSession(sessions)
    /\ conversationIdRef' = 0
    /\ agentConnected' = FALSE
    /\ UNCHANGED <<isConnecting, connectPc, agentError,
                   microphonePermissionGranted, hookFixed, offHook>>

\* the far end closes the session: handleDisconnect, handleStatusChange
SessionDrops ==
    /\ \E i \in 1..Len(sessions) : sessions[i] = "active"
    /\ sessions' = endSession(sessions)
    /\ conversationIdRef' = 0
    /\ agentConnected' = FALSE
    /\ UNCHANGED <<isConnecting, connectPc, agentError,
                   microphonePermissionGranted, hookFixed, offHook>>

\* the cleanup of the unmount effect
cleanup ==
    IF conversationIdRef # 0
    THEN sessions' = endSession(sessions)
    ELSE UNCHANGED sessions

\* the component leaves the screen; a connect() in progress goes on
HookUnmount ==
    /\ hookPhase = "mounted"
    /\ hookPhase' = "unmounted"
    /\ cleanup
    /\ UNCHANGED <<isConnecting, agentConnected, conversationIdRef, connectPc,
                   agentError, microphonePermissionGranted, autoConnect,
                   hasInitializedRef, offHook>>

InitHook ==
    /\ InitAppDefault
    /\ InitCfgDefault
    /\ InitInsDefault
    /\ hookPhase = "new"
    /\ isConnecting = FALSE
    /\ agentConnected = FALSE
    /\ conversationIdRef = 0
    /\ connectPc = "idle"
    /\ agentError = "none"
    /\ microphonePermissionGranted = FALSE
    /\ autoConnect \in BOOLEAN
    /\ hasInitializedRef = FALSE
    /\ sessions = <<>>

NextHook ==
    \/ HookMount
    \/ Connect
    \/ PermissionSettles
    \/ ResumeSettles
    \/ TokenSettles
    \/ StartSessionSettles
    \/ ConnectReturns
    \/ Disconnect
    \/ SessionDrops
    \/ HookUnmount

SpecHook == InitHook /\ [][NextHook]_vars

\* ------------------------------------------------------------------------
\* Properties of useElevenLabsAgent
\* ------------------------------------------------------------------------

\* C12: once the component using the hook has unmounted, no session started
\* by the hook is active, whether the unmount came while idle, during
\* connect() or while connected.
C12_NoSessionAfterUnmount ==
    hookPhase = "unmounted" =>
        \A i \in 1..Len(sessions) : sessions[i] # "active"

\* ------------------------------------------------------------------------
\* Insights engine: priority scoring
\* ------------------------------------------------------------------------

HoursPerDay == 24

\* getDaysSince(dateString): Math.ceil(|today - lastVisit| / one day)
getDaysSince(date, today) ==
    LET diffTime == IF today >= date THEN today - date ELSE date - today
    IN (diffTime + HoursPerDay - 1) \div HoursPerDay

\* the festive rule without the test of the outlet's type
festiveRule_anyType(outlet, dsr) ==
    IF dsr.current_festive_season # "" THEN 20 ELSE 0

\* if (dsrData.current_festive_season && outlet.type === "Eatery") score += 20
festiveRule(outlet, dsr) ==
    IF dsr.current_festive_season # "" /\ outlet.type = "Eatery" THEN 20 ELSE 0

calculatePriorityScore(outlet, dsr, today) ==
    LET daysSinceVisit == getDaysSince(outlet.last_visit_date, today)
    IN (IF outlet.avg_order_value > 30000 THEN 30
        ELSE IF outlet.avg_order_value > 20000 THEN 20 ELSE 0)
       + (IF daysSinceVisit > 14 THEN 25
          ELSE IF daysSinceVisit > 7 THEN 15 ELSE 0)
       + festiveRule(outlet, dsr)
       + (IF dsr.competitor_presence = "Low" THEN 15 ELSE 0)
       + (IF outlet.relationship_score > 7 THEN 10
          ELSE IF outlet.relationship_score > 5 THEN 5 ELSE 0)
       + (IF outlet.type = "SMMT" THEN 15 ELSE 0)

\* { ...outlet, priority_score: score }
Scored(outlet, score) ==
    [outlet_id |-> outlet.outlet_id, type |-> outlet.type,
     last_visit_date |-> outlet.last_visit_date,
     avg_order_value |-> outlet.avg_order_value,
     relationship_score |-> outlet.relationship_score,
     priority_score |-> score]

\* a.priority_score || 0
ScoreOrZero(o) == IF o.priority_score # 0 THEN o.priority_score ELSE 0

\* one step of the stable sort: o goes before the first element the
\* comparator (b.priority_score || 0) - (a.priority_score || 0) puts after it
RECURSIVE InsertByScore(_, _)
InsertByScore(sorted, o) ==
    IF sorted = <<>> THEN <<o>>
    ELSE IF ScoreOrZero(Head(sorted)) >= ScoreOrZero(o)
         THEN <<Head(sorted)>> \o InsertByScore(Tail(sorted), o)
         ELSE <<o>> \o sorted

RECURSIVE SortByScore(_)
SortByScore(arr) ==
    IF arr = <<>> THEN <<>>
    ELSE InsertByScore(SortByScore(SubSeq(arr, 1, Len(arr) - 1)), arr[Len(arr)])

\* Array.prototype.slice(0, n)
SliceFirst(arr, n) == SubSeq(arr, 1, IF Len(arr) < n THEN Len(arr) ELSE n)

\* the function without the slice
topOutlets_all(sorted) == sorted

\* .slice(0, 5)
topOutlets(sorted) == SliceFirst(sorted, TopN)

\* getPriorityOutlets(dsrData, outlets): what it returns and the outlets
\* array after the call (map builds a new array, which sort reorders)
getPriorityOutlets(dsr, arr, today) ==
    LET mapped == [i \in 1..Len(arr) |->
                      Scored(arr[i], calculatePriorityScore(arr[i], dsr, today))]
    IN [returned |-> topOutlets(SortByScore(mapped)), outlets |-> arr]

Today == 480

Outlet(id, type, visit, value, rel) ==
    [outlet_id |-> id, type |-> type, last_visit_date |-> visit,
     avg_order_value |-> value, relationship_score |-> rel]

\* outlets around every threshold of the scoring rules; visits of 7 days,
\* 7 days and an hour, 14 days, 14 days and an hour, and one in the future
OutletValues ==
    {Outlet("o", type, visit, value, rel) :
        type \in {"Eatery", "Non-Eatery", "SMMT"},
        visit \in {Today - 168, Today - 169, Today - 336, Today - 337,
                   Today + 400},
        value \in {20000, 20001, 30000, 30001},
        rel \in {5, 6, 7, 8}}

ScoreDSRs ==
    {[NoDSRData EXCEPT !.current_festive_season = f,
                       !.competitor_presence = c] :
        f \in {"", "Avurudu"}, c \in {"Low", "Medium", "High"}}

CalculatePriorityScore ==
    /\ insResult.fn = "none"
    /\ insResult' = [fn |-> "calculatePriorityScore",
                     score |-> calculatePriorityScore(outlets[1], dsrData, now)]
    /\ UNCHANGED <<dsrData, outlets, history, now, offIns>>

InitScore ==
    /\ InitAppDefault
    /\ InitCfgDefault
    /\ InitHookDefault
    /\ dsrData \in ScoreDSRs
    /\ outlets \in {<<o>> : o \in OutletValues}
    /\ history = <<>>
    /\ now \in {Today, Today + 1}
    /\ insResult = NoInsightsCall

NextScore ==
    \/ CalculatePriorityScore

SpecScore == InitScore /\ [][NextScore]_vars

\* four outlets of the route: scores 0, 45, 45 and 70 on a festive day
RouteOutlets ==
    {Outlet("o1", "Non-Eatery", Today - 24, 10000, 3),
     Outlet("o2", "Eatery", Today - 360, 10000, 3),
     Outlet("o3", "SMMT", Today - 24, 30001, 3),
     Outlet("o4", "Eatery", Today - 360, 20001, 6)}

GetPriorityOutlets ==
    /\ insResult.fn = "none"
    /\ LET r == getPriorityOutlets(dsrData, outlets, now)
       IN /\ insResult' = [fn |-> "getPriorityOutlets", given |-> outlets,
                           returned |-> r.returned]
          /\ outlets' = r.outlets
    /\ UNCHANGED <<dsrData, history, now, offIns>>

InitPriority ==
    /\ InitAppDefault
    /\ InitCfgDefault
    /\ InitHookDefault
    /\ dsrData = [NoDSRData EXCEPT !.current_festive_season = "Avurudu"]
    /\ outlets \in SeqsUpTo(RouteOutlets, MaxOutlets)
    /\ history = <<>>
    /\ now = Today
    /\ insResult = NoInsightsCall

NextPriority ==
    \/ GetPriorityOutlets

SpecPriority == InitPriority /\ [][NextPriority]_vars

\* ------------------------------------------------------------------------
\* Properties of the priority scoring
\* ------------------------------------------------------------------------

\* the outlet without its annotation
Unscored(o) == Outlet(o.outlet_id, o.type, o.last_visit_date,
                      o.avg_order_value, o.relationship_score)

ScoreOf(o) == calculatePriorityScore(o, dsrData, now)

\* how many times outlet o is in the returned array
ReturnedCount(o) ==
    Cardinality({i \in 1..Len(insResult.returned) :
                     Unscored(insResult.returned[i]) = o})

\* C13: getPriorityOutlets returns at most 5 outlets, each an outlet of the
\* input annotated with its priority_score, in non-increasing score order; no
\* omitted outlet has a strictly higher score than a returned one; and the
\* input array is as it was.
C13_TopFiveByScore ==
    insResult.fn = "getPriorityOutlets" =>
        LET given == insResult.given
            returned == insResult.returned
        IN /\ Len(returned) <= 5
           /\ Len(returned) = IF Len(given) < 5 THEN Len(given) ELSE 5
           /\ \A i \in 1..Len(returned) :
                  /\ ReturnedCount(Unscored(returned[i]))
                         <= CountIn(given, Unscored(returned[i]))
                  /\ returned[i].priority_score = ScoreOf(Unscored(returned[i]))
           /\ \A i \in 1..(Len(returned) - 1) :
                  returned[i].priority_score >= returned[i + 1].priority_score
           /\ \A k \in 1..Len(given) :
                  ReturnedCount(given[k]) < CountIn(given, given[k]) =>
                      \A i \in 1..Len(returned) :
                          ScoreOf(given[k]) <= returned[i].priority_score
           /\ outlets = given

\* more than five outlets with different scores were passed, the best one last
C13_Witness ==
    /\ insResult.fn = "getPriorityOutlets"
    /\ Len(insResult.given) > 5
    /\ Len(insResult.returned) = 5
    /\ insResult.given[Len(insResult.given)].outlet_id = "o4"
    /\ insResult.given[1].outlet_id = "o1"
    /\ insResult.returned[1].priority_score = 70
    /\ insResult.returned[5].priority_score = 45

\* the weights of the rules that apply to the outlet
RuleWeights(o, dsr, days) ==
    (IF o.avg_order_value > 30000 THEN 30
     ELSE IF o.avg_order_value > 20000 THEN 20 ELSE 0)
    + (IF days > 14 THEN 25 ELSE IF days > 7 THEN 15 ELSE 0)
    + (IF dsr.current_festive_season # "" /\ o.type = "Eatery" THEN 20 ELSE 0)
    + (IF dsr.competitor_presence = "Low" THEN 15 ELSE 0)
    + (IF o.relationship_score > 7 THEN 10
       ELSE IF o.relationship_score > 5 THEN 5 ELSE 0)
    + (IF o.type = "SMMT" THEN 15 ELSE 0)

\* whole days, rounded up, between the visit and now
DaysBetween(a, b) ==
    CHOOSE d \in 0..100 :
        /\ d * HoursPerDay >= (IF a >= b THEN a - b ELSE b - a)
        /\ (d - 1) * HoursPerDay < (IF a >= b THEN a - b ELSE b - a)

\* C16: calculatePriorityScore is the sum of the weights of the rules that
\* apply, and lies between 0 and 100 inclusive.
C16_ScoreIsWeightSumWithin100 ==
    insResult.fn = "calculatePriorityScore" =>
        /\ insResult.score =
               RuleWeights(outlets[1], dsrData,
                           DaysBetween(outlets[1].last_visit_date, now))
        /\ insResult.score >= 0
        /\ insResult.score <= 100

\* an outlet that reaches the top score of 100
C16_Witness ==
    /\ insResult.fn = "calculatePriorityScore"
    /\ insResult.score = 100

\* ------------------------------------------------------------------------
\* Insights engine: trend comparison and performance classification
\* ------------------------------------------------------------------------

\* parseFloat(s.replace("%", "")), in tenths
parseFloat(s) == (IF s.neg THEN -1 ELSE 1) * (s.int * 10 + s.frac)

\* parseInt(s): the digits before the decimal point, with the sign
parseInt(s) == (IF s.neg THEN -1 ELSE 1) * s.int

\* the record before the current one, read from the head of the array
previousRecord_first(h) == h[1]

\* history[1]: the second record (arrays of the source start at 0)
previousRecord(h) == h[2]

\* "improving" above the threshold, "declining" below its negation
Trend(diff, threshold) ==
    IF diff > threshold THEN "improving"
    ELSE IF diff < -threshold THEN "declining" ELSE "stable"

\* the insight pushed for a trend, with the difference it quotes
Insight(metric, trend, diff) ==
    IF trend = "stable" THEN <<>> ELSE <<<<metric, trend, diff>>>>

NotEnoughData == <<"Not enough historical data for comparison">>

compareWithPreviousRecords(currentRecord, h) ==
    IF Len(h) < 2
    THEN [targetAchievementTrend |-> "stable",
          salesGrowthTrend |-> "stable",
          routeEfficiencyTrend |-> "stable",
          insights |-> <<NotEnoughData>>]
    ELSE LET prev == previousRecord(h)
             targetDiff == parseFloat(currentRecord.target_achievement)
                               - parseFloat(prev.target_achievement)
             growthDiff == parseFloat(currentRecord.sales_growth_trend)
                               - parseFloat(prev.sales_growth_trend)
             efficiencyDiff == currentRecord.route_efficiency_score
                                   - prev.route_efficiency_score
             targetTrend == Trend(targetDiff, 50)
             growthTrend == Trend(growthDiff, 30)
             routeTrend == Trend(efficiencyDiff, 5)
         IN [targetAchievementTrend |-> targetTrend,
             salesGrowthTrend |-> growthTrend,
             routeEfficiencyTrend |-> routeTrend,
             insights |-> Insight("target", targetTrend, targetDiff)
                          \o Insight("growth", growthTrend, growthDiff)
                          \o Insight("route", routeTrend, efficiencyDiff)]

DSRInfo(target, growth, route) ==
    [NoDSRData EXCEPT !.target_achievement = target,
                      !.sales_growth_trend = growth,
                      !.route_efficiency_score = route]

\* the record of today: 85.0%, 5.0%, 70 points
CurrentRecord == DSRInfo(Pct(FALSE, 85, 0), Pct(FALSE, 5, 0), 70)

\* earlier records at and next to every threshold of the comparison
CompareRecords ==
    {DSRInfo(t, g, r) :
        t \in {Pct(FALSE, 79, 9), Pct(FALSE, 80, 0), Pct(FALSE, 85, 0),
               Pct(FALSE, 90, 0), Pct(FALSE, 90, 1)},
        g \in {Pct(FALSE, 1, 9), Pct(FALSE, 2, 0), Pct(FALSE, 8, 0),
               Pct(FALSE, 8, 1), Pct(TRUE, 2, 0)},
        r \in {64, 65, 75, 76}}

\* the other places of the array hold the current record or a far older one
OtherRecords == {CurrentRecord, DSRInfo(Pct(FALSE, 40, 0), Pct(TRUE, 20, 0), 20)}

Histories ==
    SeqsUpTo(OtherRecords, 1)
    \cup UNION {{[i \in 1..k |-> IF i = 2 THEN p ELSE f[i]] :
                     p \in CompareRecords, f \in [1..k -> OtherRecords]} :
                k \in 2..MaxHistory}

CompareWithPreviousRecords ==
    /\ insResult.fn = "none"
    /\ insResult' = [fn |-> "compareWithPreviousRecords",
                     comparison |-> compareWithPreviousRecords(dsrData, history)]
    /\ UNCHANGED <<dsrData, outlets, history, now, offIns>>

InitCompare ==
    /\ InitAppDefault
    /\ InitCfgDefault
    /\ InitHookDefault
    /\ dsrData = CurrentRecord
    /\ outlets = <<>>
    /\ history \in Histories
    /\ now = Today
    /\ insResult = NoInsightsCall

NextCompare ==
    \/ CompareWithPreviousRecords

SpecCompare == InitCompare /\ [][NextCompare]_vars

\* classifyPerformance(dsrData).status
classifyPerformance(dsr) ==
    LET targetAchievement == parseFloat(dsr.target_achievement)
        growthTrend == parseFloat(dsr.sales_growth_trend)
    IN IF targetAchievement >= 1200 /\ growthTrend > 100 THEN "excellent"
       ELSE IF targetAchievement >= 1000 /\ targetAchievement < 1200 THEN "good"
       ELSE IF targetAchievement >= 800 /\ targetAchievement < 1000
            THEN "needs-attention"
       ELSE "critical"

\* Header: targetAchievement = parseInt(currentDSR.target_achievement), then
\* getPerformanceBadge().label
getPerformanceBadge(dsr) ==
    LET targetAchievement == parseInt(dsr.target_achievement)
    IN IF targetAchievement >= 120 THEN "Excellent"
       ELSE IF targetAchievement >= 100 THEN "On Track"
       ELSE IF targetAchievement >= 80 THEN "Below Target"
       ELSE "Needs Focus"

\* records at and next to every threshold of the two classifications
PerformanceRecords ==
    {DSRInfo(Pct(FALSE, t, tf), Pct(neg, g, gf), 70) :
        t \in {79, 80, 99, 100, 119, 120, 132}, tf \in {0, 5},
        neg \in BOOLEAN, g \in {5, 10, 11}, gf \in {0, 5}}

\* the home page renders: the header computes its badge and the page
\* classifies the same record
ShowPerformance ==
    /\ insResult.fn = "none"
    /\ insResult' = [fn |-> "performance",
                     badge |-> getPerformanceBadge(dsrData),
                     status |-> classifyPerformance(dsrData)]
    /\ UNCHANGED <<dsrData, outlets, history, now, offIns>>

InitPerformance ==
    /\ InitAppDefault
    /\ InitCfgDefault
    /\ InitHookDefault
    /\ dsrData \in PerformanceRecords
    /\ outlets = <<>>
    /\ history = <<>>
    /\ now = Today
    /\ insResult = NoInsightsCall

NextPerformance ==
    \/ ShowPerformance

SpecPerformance == InitPerformance /\ [][NextPerformance]_vars

\* ------------------------------------------------------------------------
\* Properties of the trend comparison and the classification
\* ------------------------------------------------------------------------

\* difference of two percentage strings, in tenths
PctDiff(a, b) ==
    (IF a.neg THEN -(a.int * 10 + a.frac) ELSE a.int * 10 + a.frac)
    - (IF b.neg THEN -(b.int * 10 + b.frac) ELSE b.int * 10 + b.frac)

ExpectedTrend(diff, threshold) ==
    CASE diff > threshold -> "improving"
      [] diff < -threshold -> "declining"
      [] OTHER -> "stable"

BadgeOf(status) ==
    CASE status = "excellent" -> "Excellent"
      [] status = "good" -> "On Track"
      [] status = "needs-attention" -> "Below Target"
      [] status = "critical" -> "Needs Focus"

\* C15: the header's badge is the one that goes with the status
\* classifyPerformance gives the same record: Excellent with excellent, On
\* Track with good, Below Target with needs-attention, Needs Focus with
\* critical.
C15_BadgeAgreesWithStatus ==
    insResult.fn = "performance" =>
        insResult.badge = BadgeOf(insResult.status)

====
